---- MODULE Spec2Model ----
(***************************************************************************)
(* Model of scripts/generate_image_diffusers.py: one invocation of main(), *)
(* which calls generate_image() once and turns its outcome into an exit    *)
(* code.  The diffusion library, the file system and the hardware probes   *)
(* are the environment: every value the code reads from them is drawn from *)
(* a small set at the step that reads it.                                  *)
(*                                                                         *)
(* Spec is the whole request.  SpecMem, SpecDetect, SpecRemap, SpecPlace   *)
(* and SpecLora start a request at one of its blocks and explore that      *)
(* block over a wider range of inputs; SpecRemap runs the Weight Adapter   *)
(* of two requests against one model directory, step by step.              *)
(*                                                                         *)
(* Units: memory and file sizes in GB; LoRA weights in tenths (10 = 1.0).  *)
(***************************************************************************)
EXTENDS Integers, Sequences, FiniteSets, TLC

\* ---------------------------------------------------------------- bounds
MaxLoras == 3          \* longest --lora list explored
MaxFiles == 2          \* most files under a model directory (memory estimator)
MaxFileGB == 4         \* largest single file explored by the memory estimator
MaxRamGB == 4          \* largest system memory explored by the memory estimator
MaxConfigKeys == 3     \* most keys of a pipeline scheduler configuration (resolver)

\* ------------------------------------------------------- program constants
ThresholdNum == 3      \* threshold = system_ram * 0.75  (0.75 = 3/4)
ThresholdDen == 4
DefaultWeight == 10    \* the 1.0 used to default and pad LoRA weights

\* SCHEDULERS: the registry's keys (a representative of every class) and the
\* class each one builds.
SCHEDULERS ==
  [ s \in {"dpm++", "dpm++_sde", "dpm++_sde_karras", "euler",
           "flow_match_euler", "flow_match_heun"} |->
      CASE s \in {"dpm++", "dpm++_sde", "dpm++_sde_karras"} -> "DPMSolverMultistepScheduler"
        [] s = "euler" -> "EulerDiscreteScheduler"
        [] s = "flow_match_euler" -> "FlowMatchEulerDiscreteScheduler"
        [] s = "flow_match_heun" -> "FlowMatchHeunDiscreteScheduler" ]

\* The literal lists of generate_image's scheduler rules.
SdeSchedulers == {"dpm++_sde", "dpm++_sde_karras"}
FlowMatchSchedulers == {"flow_match_euler", "flow_match_heun"}

\* Scheduler names a caller sends: registry keys and one unregistered name.
RequestedSchedulers ==
  {"euler", "dpm++_sde", "dpm++_sde_karras", "flow_match_euler", "no_such_scheduler"}

\* Scheduler classes a loaded pipeline may carry.
PipelineSchedulerClasses == {"PNDMScheduler", "FlowMatchEulerDiscreteScheduler"}

\* 'FlowMatch' in original_scheduler_class
HasFlowMatch(cls) ==
  cls \in {"FlowMatchEulerDiscreteScheduler", "FlowMatchHeunDiscreteScheduler"}

\* -------------------------------------------------- model type detection
\* What model_path holds: a single checkpoint file, a directory without a
\* manifest, a manifest that cannot be opened or cannot be parsed, a manifest
\* without _class_name, or a manifest naming a pipeline class.
Manifests ==
  {"single_file", "no_manifest", "unreadable", "malformed", "no_class_name",
   "ZImagePipeline", "QwenImagePipeline", "QwenImageEditPipeline", "FluxPipeline",
   "MysteryPipeline"}

\* hasattr(diffusers, name)
DiffusersClasses ==
  {"StableDiffusionPipeline", "StableDiffusionImg2ImgPipeline", "ZImagePipeline",
   "ZImageImg2ImgPipeline", "QwenImagePipeline", "QwenImageImg2ImgPipeline",
   "QwenImageEditPipeline",
   "FluxPipeline", "FluxImg2ImgPipeline"}

\* name.replace('Pipeline', 'Img2ImgPipeline') and name.replace('Pipeline', '')
Img2ImgVariant(name) ==
  CASE name = "ZImagePipeline" -> "ZImageImg2ImgPipeline"
    [] name = "QwenImagePipeline" -> "QwenImageImg2ImgPipeline"
    [] name = "QwenImageEditPipeline" -> "QwenImageEditImg2ImgPipeline"
    [] name = "FluxPipeline" -> "FluxImg2ImgPipeline"
    [] OTHER -> "MysteryImg2ImgPipeline"
\* name + 'Img2Img'
Img2ImgSuffixed(name) ==
  CASE name = "ZImagePipeline" -> "ZImagePipelineImg2Img"
    [] name = "QwenImagePipeline" -> "QwenImagePipelineImg2Img"
    [] name = "QwenImageEditPipeline" -> "QwenImageEditPipelineImg2Img"
    [] name = "FluxPipeline" -> "FluxPipelineImg2Img"
    [] OTHER -> "MysteryPipelineImg2Img"
StripPipeline(name) ==
  CASE name = "ZImagePipeline" -> "ZImage"
    [] name = "QwenImagePipeline" -> "QwenImage"
    [] name = "QwenImageEditPipeline" -> "QwenImageEdit"
    [] name = "FluxPipeline" -> "Flux"
    [] OTHER -> "Mystery"

DefaultPipeline(is_img2img) ==
  IF is_img2img THEN "StableDiffusionImg2ImgPipeline" ELSE "StableDiffusionPipeline"
DefaultType == "Stable Diffusion"

\* Mutant: the class named by the manifest is used without asking the library.
detect_pipeline_class_unchecked(manifest, is_img2img) ==
  IF manifest \in {"single_file", "no_manifest", "unreadable", "malformed",
                   "no_class_name"}
  THEN <<DefaultPipeline(is_img2img), DefaultType>>
  ELSE <<manifest, StripPipeline(manifest)>>

\* detect_pipeline_class(model_path, is_img2img) -> <<PipelineClass, model_type>>
\* A manifest that cannot be opened or parsed raises inside the try block,
\* whose except clause returns the default.
detect_pipeline_class(manifest, is_img2img) ==
  IF manifest \in {"single_file", "no_manifest", "unreadable", "malformed",
                   "no_class_name"}
  THEN <<DefaultPipeline(is_img2img), DefaultType>>
  ELSE IF is_img2img /\ Img2ImgVariant(manifest) \in DiffusersClasses
       THEN <<Img2ImgVariant(manifest), StripPipeline(manifest)>>
       ELSE IF is_img2img /\ Img2ImgSuffixed(manifest) \in DiffusersClasses
            THEN <<Img2ImgSuffixed(manifest), StripPipeline(manifest)>>
            ELSE IF manifest \in DiffusersClasses
                 THEN <<manifest, StripPipeline(manifest)>>
                 ELSE <<DefaultPipeline(is_img2img), DefaultType>>

\* model_type.lower(), as the words it is made of: "x in model_type.lower()"
\* is membership of a word, "model_type.lower() in [...]" is equality of the
\* whole string.
LowerWords(model_type) ==
  CASE model_type = "Stable Diffusion" -> <<"stable", " ", "diffusion">>
    [] model_type = "ZImage" -> <<"zimage">>
    [] model_type = "QwenImage" -> <<"qwen", "image">>
    [] model_type = "QwenImageEdit" -> <<"qwen", "image", "edit">>
    [] model_type = "Flux" -> <<"flux">>
    [] OTHER -> <<"mystery">>
Contains(words, w) == \E i \in 1..Len(words) : words[i] = w

\* is_zimage = "zimage" in mt or "qwen" in mt or "flow" in mt
IsZImage(model_type) ==
  \/ Contains(LowerWords(model_type), "zimage")
  \/ Contains(LowerWords(model_type), "qwen")
  \/ Contains(LowerWords(model_type), "flow")

\* model_type.lower() in ["zimage", "flux", "sd3"]
StrictSchedulerType(model_type) ==
  LowerWords(model_type) \in {<<"zimage">>, <<"flux">>, <<"sd3">>}

\* ------------------------------------------------- memory budget estimator
RECURSIVE SumSizes(_)
SumSizes(files) == IF files = <<>> THEN 0 ELSE Head(files) + SumSizes(Tail(files))

\* Mutant: the threshold comparison is not strict.
LowMemoryAtThreshold(files, system_ram, detect_ok) ==
  IF detect_ok
  THEN ThresholdDen * SumSizes(files) >= ThresholdNum * system_ram
  ELSE FALSE

\* should_use_low_memory(model_path): files are the sizes of the files under
\* model_path (one entry for a single-file model), detect_ok is FALSE when
\* psutil or a stat call raises and the except branch answers False.
\* model_size > system_ram * 0.75, in integers.
should_use_low_memory(files, system_ram, detect_ok) ==
  IF detect_ok
  THEN ThresholdDen * SumSizes(files) > ThresholdNum * system_ram
  ELSE FALSE

\* ------------------------------------------------ device & precision policy
\* The device chain of generate_image: requested is the device argument.
ResolveDevice(requested, mps_available, cuda_available) ==
  CASE requested = "auto" ->
         IF mps_available THEN "mps" ELSE IF cuda_available THEN "cuda" ELSE "cpu"
    [] requested = "mps" -> IF mps_available THEN "mps" ELSE "cpu"
    [] requested = "cpu" -> "cpu"
    [] OTHER -> "cpu"

\* Mutant: bf16 on mps for every model family that passes the probe.
SelectDtypeAnyFamily(dev, is_zimage, mps_still_available, bf16_alloc_ok, cuda_bf16, use_low) ==
  CASE dev = "mps" ->
         IF mps_still_available /\ bf16_alloc_ok THEN "bf16" ELSE "fp32"
    [] dev = "cuda" -> IF cuda_bf16 THEN "bf16" ELSE "fp16"
    [] OTHER -> IF use_low THEN "fp16" ELSE "fp32"

\* The dtype chain of generate_image. mps_still_available and bf16_alloc_ok are
\* the second availability probe and the trial bf16 allocation on mps;
\* cuda_bf16 is torch.cuda.is_bf16_supported().
SelectDtype(dev, is_zimage, mps_still_available, bf16_alloc_ok, cuda_bf16, use_low) ==
  CASE dev = "mps" ->
         IF is_zimage
         THEN IF mps_still_available
              THEN IF bf16_alloc_ok THEN "bf16" ELSE "fp32"
              ELSE "fp32"
         ELSE "fp32"
    [] dev = "cuda" -> IF cuda_bf16 THEN "bf16" ELSE "fp16"
    [] OTHER -> IF use_low THEN "fp16" ELSE "fp32"

\* -------------------------------------------------------- scheduler resolver
SchedulerRaise == [raise |-> "ValueError: Unknown scheduler"]
SchedulerCtorRaise == [raise |-> "scheduler constructor failed"]

\* A scheduler configuration is a set of <<key, value>> pairs; the values of a
\* pipeline's configuration are not looked at and are all written "pipeline".
Keys(config) == { p[1] : p \in config }

\* SCHEDULERS[name]['config']: the keyword arguments of a registry entry.
SchedulerConfig(scheduler_name) ==
  CASE scheduler_name = "dpm++" ->
         { <<"use_karras_sigmas", "False">>, <<"algorithm_type", "dpmsolver++">>,
           <<"solver_order", "1">>, <<"lower_order_final", "True">> }
    [] scheduler_name = "dpm++_sde" ->
         { <<"use_karras_sigmas", "False">>, <<"algorithm_type", "sde-dpmsolver++">>,
           <<"solver_order", "1">>, <<"lower_order_final", "True">> }
    [] scheduler_name = "dpm++_sde_karras" ->
         { <<"use_karras_sigmas", "True">>, <<"algorithm_type", "sde-dpmsolver++">>,
           <<"solver_order", "1">>, <<"lower_order_final", "True">> }
    [] OTHER -> {}

\* incompatible_keys
IncompatibleKeys ==
  {"mu", "timestep_type", "rescale_betas_zero_snr", "variance_type", "clip_sample",
   "clip_sample_range", "thresholding", "dynamic_thresholding_ratio",
   "sample_max_value", "prediction_type", "steps_offset"}

\* config_dict = dict(pipeline_config); for key in incompatible_keys: config_dict.pop(key, None)
FilteredConfig(pipeline_config) ==
  { p \in pipeline_config : p[1] \notin IncompatibleKeys }

\* from_config(config_dict, **kwargs): a keyword argument replaces the entry
\* of config_dict with the same key.
FromConfig(config_dict, kwargs) ==
  { p \in config_dict : p[1] \notin Keys(kwargs) } \cup kwargs

\* Mutant: the pipeline's configuration is passed on with every key it has.
get_scheduler_unfiltered(scheduler_name, pipeline_config, from_config_ok, defaults_ok) ==
  IF scheduler_name \notin DOMAIN SCHEDULERS
  THEN [raise |-> "ValueError: Unknown scheduler", pipeline_config |-> pipeline_config]
  ELSE IF from_config_ok
       THEN [cls |-> SCHEDULERS[scheduler_name], built |-> "pipeline_config",
             config |-> FromConfig(pipeline_config, SchedulerConfig(scheduler_name)),
             pipeline_config |-> pipeline_config]
       ELSE IF defaults_ok
            THEN [cls |-> SCHEDULERS[scheduler_name], built |-> "defaults",
                  config |-> SchedulerConfig(scheduler_name),
                  pipeline_config |-> pipeline_config]
            ELSE [raise |-> "scheduler constructor failed",
                  pipeline_config |-> pipeline_config]

\* get_scheduler(scheduler_name, pipeline_config): from_config_ok and
\* defaults_ok are the outcomes of class.from_config(config_dict, **config) and
\* of class(**config).  The result says which class was built, how, and from
\* which configuration, or what was raised; its pipeline_config is what the
\* caller's configuration object holds after the call (the keys are popped
\* from a copy).
get_scheduler(scheduler_name, pipeline_config, from_config_ok, defaults_ok) ==
  IF scheduler_name \notin DOMAIN SCHEDULERS
  THEN [raise |-> SchedulerRaise.raise, pipeline_config |-> pipeline_config]
  ELSE IF from_config_ok
       THEN [cls |-> SCHEDULERS[scheduler_name], built |-> "pipeline_config",
             config |-> FromConfig(FilteredConfig(pipeline_config),
                                   SchedulerConfig(scheduler_name)),
             pipeline_config |-> pipeline_config]
       ELSE IF defaults_ok
            THEN [cls |-> SCHEDULERS[scheduler_name], built |-> "defaults",
                  config |-> SchedulerConfig(scheduler_name),
                  pipeline_config |-> pipeline_config]
            ELSE [raise |-> SchedulerCtorRaise.raise,
                  pipeline_config |-> pipeline_config]

\* The configuration a loaded pipeline's scheduler carries, by its class.
LoadedConfig(cls) ==
  IF cls = "PNDMScheduler"
  THEN { <<"num_train_timesteps", "pipeline">>, <<"steps_offset", "pipeline">>,
         <<"prediction_type", "pipeline">> }
  ELSE { <<"num_train_timesteps", "pipeline">> }

\* should_use_original after the two flow-matching rules of generate_image.
ShouldUseOriginal(sched, original_scheduler_class, model_type) ==
  \/ HasFlowMatch(original_scheduler_class) /\ sched \notin FlowMatchSchedulers
  \/ StrictSchedulerType(model_type) /\ sched \notin FlowMatchSchedulers

\* ------------------------------------------------------------ LoRA composer
\* lora_weights is [is_none, list]: None, or a list of weights.
NoWeights == [is_none |-> TRUE, list |-> <<>>]
Repeat(x, n) == [i \in 1..n |-> x]

\* Mutant: a short weight list is left as it is.
PadWeightsNoPadding(n_paths, weights) ==
  IF weights.is_none THEN Repeat(DefaultWeight, n_paths) ELSE weights.list

\* The defaulting and padding of lora_weights at the top of the LoRA block.
PadWeights(n_paths, weights) ==
  IF weights.is_none
  THEN Repeat(DefaultWeight, n_paths)
  ELSE IF Len(weights.list) < n_paths
       THEN weights.list \o Repeat(DefaultWeight, n_paths - Len(weights.list))
       ELSE weights.list

\* weight = lora_weights[i] if i < len(lora_weights) else 1.0   (i is 1-based here)
WeightAt(effective, i) == IF i <= Len(effective) THEN effective[i] ELSE DefaultWeight

\* ------------------------------------------------------------------- state
VARIABLES
  pc,             \* where main()/generate_image() stands
  error,          \* the exception that left generate_image, "none" if none
  exit_code,      \* what main() returns, -1 while running
  log,            \* the warnings and notes printed so far (tags)
  manifest,       \* on disk: what model_path holds
  weights_file,   \* on disk: transformer/diffusion_pytorch_model.safetensors
  cache_file,     \* on disk: ..._remapped.safetensors
  backup_file,    \* on disk: ..._original.safetensors
  device,         \* the device variable: the argument, then the resolved one
  backend,        \* the device the selection chain resolved (history)
  scheduler,      \* the scheduler argument
  is_img2img,
  PipelineClass, model_type,
  model_files,    \* on disk: the sizes of the files under model_path
  system_ram,     \* psutil.virtual_memory().total
  mem_detect_ok,  \* the last memory detection ran without an exception
  use_low_memory,
  dtype,
  original_scheduler_class, is_sdxl, components_fp32,
  pipe_scheduler, get_scheduler_calls,
  attention_slicing, offload, to_calls, placed, place_exc,
  xformers,       \* enable_xformers_memory_efficient_attention was attempted
  lora_paths, lora_weights, lora_i, load_calls, loaded_adapters, set_adapters_calls,
  generator_device, \* the device torch.Generator is created on for a seed
  compel_used, sample_calls,
  num_images, saved_paths, json_out,
  metadata_scheduler, \* "scheduler" in the metadata of the printed JSON result
  adapter,        \* the Weight Adapter runs against the model: position and locals of each
  invoked,        \* the components generate_image has entered so far, in order
  pipeline_config, \* pipe.scheduler.config of the scheduler the model was loaded with
  built_config    \* the configuration the replacement scheduler was built from

diskVars == <<manifest, weights_file, cache_file, backup_file>>
ctlVars == <<pc, error, exit_code, log>>
devVars == <<device, backend>>
detectVars == <<is_img2img, PipelineClass, model_type>>
memVars == <<model_files, system_ram, mem_detect_ok, use_low_memory, dtype>>
loadVars == <<original_scheduler_class, is_sdxl, components_fp32>>
schedVars == <<scheduler, pipe_scheduler, get_scheduler_calls, pipeline_config, built_config>>
placeVars == <<attention_slicing, offload, to_calls, placed, place_exc, xformers>>
loraVars == <<lora_paths, lora_weights, lora_i, load_calls, loaded_adapters, set_adapters_calls>>
genVars == <<generator_device, compel_used, sample_calls, num_images, saved_paths, json_out,
            metadata_scheduler>>

vars == <<diskVars, adapter, invoked, ctlVars, devVars, detectVars, memVars, loadVars, schedVars,
          placeVars, loraVars, genVars>>

\* The models a request may find on disk: a single checkpoint file or a
\* directory, whose transformer weight file is absent, holds fused qkv keys
\* or holds split keys.
ModelsOnDisk ==
  { m \in [manifest : {"single_file", "ZImagePipeline", "QwenImagePipeline",
                       "QwenImageEditPipeline", "FluxPipeline"},
           weights : {"absent", "fused", "split"}] :
      m.manifest \in {"single_file", "no_manifest", "QwenImageEditPipeline"}
        => m.weights = "absent" }

\* The LoRA arguments of the whole-request specification (the composer is
\* explored over every request up to MaxLoras paths under SpecLora).
MainLoraRequests ==
  { [paths |-> <<>>, weights |-> NoWeights],
    [paths |-> <<"ok", "missing">>, weights |-> [is_none |-> FALSE, list |-> <<8>>]] }

\* Model sizes and system memories (GB) of the whole-request specification:
\* a model of 8 GB with 16 GB of RAM and one of 30 GB with 32 GB (the
\* estimator is explored over every size under SpecMem).
MemoryScenarios ==
  { [files |-> <<8>>, ram |-> 16], [files |-> <<30>>, ram |-> 32] }

DeviceArguments == {"auto", "mps", "cpu", "cuda"}

\* The requests that run the Weight Adapter against one model directory, and
\* the state of a request that has not reached it.
Runs == {1, 2}
NotStarted ==
  [pc |-> "idle", needs_remap |-> "unset", ops |-> <<>>, error |-> "none",
   stopped_at |-> "none", after_completed |-> FALSE, after_aborted |-> FALSE,
   chose_rename |-> FALSE]
NoAdapterRuns == [r \in Runs |-> NotStarted]

NoException == [type |-> "none", msg |-> {}]

Init ==
  /\ pc = "start" /\ error = "none" /\ exit_code = -1 /\ log = {}
  /\ \E m \in ModelsOnDisk : manifest = m.manifest /\ weights_file = m.weights
  /\ cache_file = "absent" /\ backup_file = "absent"
  /\ device \in DeviceArguments /\ backend = "unresolved"
  /\ scheduler \in RequestedSchedulers
  /\ is_img2img = FALSE /\ PipelineClass = "unset" /\ model_type = "unset"
  /\ \E m \in MemoryScenarios : model_files = m.files /\ system_ram = m.ram
  /\ mem_detect_ok = FALSE /\ use_low_memory = FALSE
  /\ dtype = "unset"
  /\ original_scheduler_class = "unset" /\ is_sdxl = FALSE
  /\ components_fp32 = "none"
  /\ pipe_scheduler = [cls |-> "unset", built |-> "none"] /\ get_scheduler_calls = 0
  /\ attention_slicing = FALSE /\ offload = "none" /\ to_calls = 0 /\ placed = FALSE
  /\ place_exc = NoException /\ xformers = FALSE
  /\ \E r \in MainLoraRequests : lora_paths = r.paths /\ lora_weights = r.weights
  /\ lora_i = 0 /\ load_calls = <<>>
  /\ loaded_adapters = <<>> /\ set_adapters_calls = <<>>
  /\ generator_device = "unset" /\ compel_used = FALSE /\ sample_calls = 0
  /\ num_images = 0 /\ saved_paths = 0 /\ json_out = 0
  /\ metadata_scheduler = "unset" /\ adapter = NoAdapterRuns
  /\ invoked = <<>> /\ pipeline_config = {} /\ built_config = {}

\* An exception leaves generate_image. Inside the big try block the handler
\* prints "Error loading model" and re-raises.
Raise(err, in_try, notes) ==
  /\ pc' = "raised"
  /\ error' = err
  /\ log' = log \cup notes \cup (IF in_try THEN {"error_loading_model"} ELSE {})
  /\ UNCHANGED exit_code

Goto(next, notes) ==
  /\ pc' = next
  /\ log' = log \cup notes
  /\ UNCHANGED <<error, exit_code>>

\* ------------------------------------------------------------------ actions
\* The existence checks on the model path and on the source image.
CheckInputs ==
  /\ pc = "start"
  /\ \E model_exists \in BOOLEAN, image \in {"none", "present", "missing", "unreadable"} :
       IF ~model_exists
       THEN Raise("FileNotFoundError: Model not found", FALSE, {}) /\ UNCHANGED is_img2img
       ELSE /\ is_img2img' = (image # "none")
            /\ CASE image = "missing" ->
                      Raise("FileNotFoundError: Input image not found", FALSE, {})
                 [] image = "unreadable" -> Raise("image open failed", FALSE, {})
                 [] OTHER -> Goto("device", {})
  /\ UNCHANGED <<diskVars, adapter, invoked, devVars, PipelineClass, model_type, memVars, loadVars,
                 schedVars, placeVars, loraVars, genVars>>

\* The device chain.
SelectDevice ==
  /\ pc = "device"
  /\ invoked' = Append(invoked, "device_precision")
  /\ \E mps_available \in BOOLEAN, cuda_available \in BOOLEAN :
       /\ device' = ResolveDevice(device, mps_available, cuda_available)
       /\ backend' = device'
  /\ Goto("detect", {})
  /\ UNCHANGED <<diskVars, adapter, detectVars, memVars, loadVars, schedVars, placeVars,
                 loraVars, genVars>>

\* is_multipart = (model_path / "model_index.json").exists() if is_dir else False
IsMultipart == manifest \notin {"single_file", "no_manifest"}

DetectPipeline ==
  /\ pc = "detect"
  /\ invoked' = Append(invoked, "descriptor")
  /\ PipelineClass' = detect_pipeline_class(manifest, is_img2img)[1]
  /\ model_type' = detect_pipeline_class(manifest, is_img2img)[2]
  /\ Goto("remap", {})
  /\ UNCHANGED <<diskVars, adapter, devVars, is_img2img, memVars, loadVars, schedVars,
                 placeVars, loraVars, genVars>>

\* What a read of the weight path sees: the file itself, or through the
\* symbolic link the cache file.
WeightsContent == IF weights_file = "link" THEN cache_file ELSE weights_file

\* The Weight Adapter block with remap_fp8_weights: load the transformer
\* weights, split fused keys, write the cache file unless it exists, back the
\* original up unless a backup exists, and put a link to the cache in its place.
WeightAdapter ==
  /\ pc = "remap"
  /\ invoked' = Append(invoked, "weights")
  /\ IF IsMultipart /\ WeightsContent # "absent"
     THEN \E load_ok \in BOOLEAN :
            IF ~load_ok
            THEN Raise("weight file load failed", FALSE, {})
                 /\ UNCHANGED <<weights_file, cache_file, backup_file>>
            ELSE IF WeightsContent # "fused"
                 THEN Goto("precision", {"no_remap_needed"})
                      /\ UNCHANGED <<weights_file, cache_file, backup_file>>
                 ELSE /\ cache_file' = IF cache_file = "absent" THEN "remapped" ELSE cache_file
                      /\ backup_file' = IF backup_file = "absent" THEN weights_file
                                        ELSE backup_file
                      /\ weights_file' = "link"
                      /\ Goto("precision", {})
     ELSE Goto("precision", {}) /\ UNCHANGED <<weights_file, cache_file, backup_file>>
  /\ UNCHANGED <<manifest, adapter, devVars, detectVars, memVars, loadVars, schedVars,
                 placeVars, loraVars, genVars>>

\* should_use_low_memory, then the dtype chain.
MemoryAndPrecision ==
  /\ pc = "precision"
  /\ invoked' = invoked \o <<"memory", "device_precision">>
  /\ \E detect_ok \in BOOLEAN,
        mps_still_available \in BOOLEAN, bf16_alloc_ok \in BOOLEAN, cuda_bf16 \in BOOLEAN :
       /\ mem_detect_ok' = detect_ok
       /\ use_low_memory' = should_use_low_memory(model_files, system_ram, detect_ok)
       /\ dtype' = SelectDtype(device, IsZImage(model_type), mps_still_available,
                               bf16_alloc_ok, cuda_bf16, use_low_memory')
  /\ Goto("load", {})
  /\ UNCHANGED <<diskVars, adapter, model_files, system_ram, devVars, detectVars, loadVars, schedVars, placeVars,
                 loraVars, genVars>>

\* from_single_file, or from_pretrained with the AutoPipeline retry; then the
\* float32 conversions for standard models on mps.
LoadPipeline ==
  /\ pc = "load"
  /\ \E how \in {"single_file", "class", "auto", "fails"},
        cls \in PipelineSchedulerClasses, sdxl \in BOOLEAN :
       /\ how = "single_file" <=> (manifest = "single_file" /\ how # "fails")
       /\ IF how = "fails"
          THEN /\ Raise("pipeline load failed", TRUE, {})
               /\ UNCHANGED <<loadVars, pipe_scheduler, pipeline_config>>
          ELSE /\ original_scheduler_class' = cls
               /\ is_sdxl' = sdxl
               /\ pipe_scheduler' = [cls |-> cls, built |-> "model"]
               /\ pipeline_config' = LoadedConfig(cls)
               /\ components_fp32' =
                    IF device = "mps" /\ ~IsZImage(model_type)
                    THEN IF sdxl THEN "all" ELSE "vae"
                    ELSE "none"
               /\ Goto("scheduler", {})
  /\ UNCHANGED <<diskVars, adapter, invoked, devVars, detectVars, memVars, scheduler,
                 get_scheduler_calls, built_config, placeVars, loraVars, genVars>>

\* The ValueError of the SDE rule and the scheduler names its message offers.
SdeError == "ValueError: Scheduler is not compatible with MPS device. Use 'euler' or 'dpm++' instead."
ErrorNames(err) == IF err = SdeError THEN {"euler", "dpm++"} ELSE {}

\* Mutant: the Karras variant is missing from the rejected list.
SdeRejectedWithoutKarras(dev, sched) == dev = "mps" /\ sched = "dpm++_sde"

\* device == "mps" and scheduler in ['dpm++_sde', 'dpm++_sde_karras']
SdeRejected(dev, sched) == dev = "mps" /\ sched \in SdeSchedulers

\* The Scheduler Compatibility Resolver block of generate_image.
ResolveScheduler ==
  /\ pc = "scheduler"
  /\ invoked' = Append(invoked, "scheduler")
  /\ \E from_config_ok \in BOOLEAN, defaults_ok \in BOOLEAN :
       LET sched == scheduler
           keep == ShouldUseOriginal(sched, original_scheduler_class, model_type)
           notes ==
             (IF HasFlowMatch(original_scheduler_class) /\ sched \notin FlowMatchSchedulers
              THEN {"flow_matching_using_original"} ELSE {})
             \cup (IF StrictSchedulerType(model_type) /\ sched \notin FlowMatchSchedulers
                   THEN {"preserving_original"} ELSE {})
           made == get_scheduler(sched, pipeline_config, from_config_ok, defaults_ok)
       IN /\ from_config_ok => defaults_ok
          /\ IF SdeRejected(device, sched)
             THEN /\ Raise(SdeError, TRUE, {"sde_alternatives_listed"})
                  /\ UNCHANGED <<pipe_scheduler, get_scheduler_calls, pipeline_config,
                                 built_config>>
             ELSE IF keep
                  THEN /\ Goto("place", notes)
                       /\ UNCHANGED <<pipe_scheduler, get_scheduler_calls,
                                      pipeline_config, built_config>>
                  ELSE /\ get_scheduler_calls' = get_scheduler_calls + 1
                       /\ pipeline_config' = made.pipeline_config
                       /\ IF "raise" \in DOMAIN made
                          THEN /\ Raise(made.raise, TRUE, notes)
                               /\ UNCHANGED <<pipe_scheduler, built_config>>
                          ELSE /\ pipe_scheduler' = [cls |-> made.cls, built |-> made.built]
                               /\ built_config' = made.config
                               /\ Goto("place", notes \cup
                                    (IF made.built = "defaults"
                                     THEN {"scheduler_defaults"} ELSE {}))
  /\ UNCHANGED <<diskVars, adapter, devVars, detectVars, memVars, loadVars, scheduler,
                 placeVars, loraVars, genVars>>

\* What pipe.to(device) may do: succeed, or raise an exception of some type
\* whose lower-cased message contains some of the phrases the handler looks for.
PlacementOutcomes ==
  {NoException}
  \cup [type : {"RuntimeError"},
        msg : { {"out of memory"}, {"meta tensor"}, {"meta tensor", "mps"}, {} }]
  \cup [type : {"ValueError"}, msg : { {"meta tensor"} }]

\* Every exception pipe.to(device) may raise, as far as the handler can tell
\* them apart: its type, and which of the phrases the handler looks for its
\* lower-cased message contains.
ErrorPhrases == {"out of memory", "mps", "meta tensor", "to_empty"}
AllPlacementOutcomes ==
  {NoException}
  \cup [type : {"RuntimeError", "NotImplementedError", "ValueError"},
        msg : SUBSET ErrorPhrases]

\* Mutant: an out-of-memory error is not given the sequential fallback.
PlacementFallbackWithoutOom(exc) ==
  IF exc.type \notin {"RuntimeError", "NotImplementedError"}
  THEN "raise"
  ELSE IF "mps" \in exc.msg
       THEN "sequential"
       ELSE IF "meta tensor" \in exc.msg \/ "to_empty" \in exc.msg
            THEN "model"
            ELSE "raise"

\* The except clause around pipe.to(device): which fallback an exception gets.
PlacementFallback(exc) ==
  IF exc.type \notin {"RuntimeError", "NotImplementedError"}
  THEN "raise"
  ELSE IF "out of memory" \in exc.msg \/ "mps" \in exc.msg
       THEN "sequential"
       ELSE IF "meta tensor" \in exc.msg \/ "to_empty" \in exc.msg
            THEN "model"
            ELSE "raise"

\* Mutant: low memory on mps is not special-cased and falls into pipe.to.
PlacementBranchCpuOnly(use_low, dev) ==
  IF use_low /\ dev = "cpu" THEN "slicing" ELSE "to"

\* Mutant: low memory on cpu is not special-cased and falls into pipe.to.
PlacementBranchMpsOnly(use_low, dev) ==
  IF use_low /\ dev = "mps" THEN "offload" ELSE "to"

\* The if / elif / else that decides between proactive sequential offload,
\* attention slicing on cpu, and a pipe.to(device) attempt.
PlacementBranch(use_low, dev) ==
  IF use_low /\ dev = "mps" THEN "offload"
  ELSE IF use_low /\ dev = "cpu" THEN "slicing"
  ELSE "to"

\* Attention slicing for SDXL on mps, the offload / placement branch, and the
\* per-device memory optimizations after it; outcomes is what pipe.to may do.
PlacementWith(outcomes) ==
  /\ pc = "place"
  /\ invoked' = Append(invoked, "placement")
  /\ \E exc \in outcomes :
       LET early == (device = "mps" /\ is_sdxl)
           branch == PlacementBranch(use_low_memory, device)
           try_to == (branch = "to")
           fb == IF try_to /\ exc # NoException THEN PlacementFallback(exc) ELSE "none"
           dev2 == IF fb \in {"sequential", "model"} THEN "cpu" ELSE device
       IN /\ try_to \/ exc = NoException
          /\ to_calls' = IF try_to THEN to_calls + 1 ELSE to_calls
          /\ place_exc' = exc
          /\ IF fb = "raise"
             THEN /\ Raise("placement failed", TRUE, {})
                  /\ attention_slicing' = (attention_slicing \/ early)
                  /\ UNCHANGED <<offload, placed, xformers, device>>
             ELSE /\ offload' =
                       IF branch = "offload" THEN "sequential"
                       ELSE IF fb \in {"sequential", "model"} THEN fb ELSE offload
                  /\ placed' = (try_to /\ exc = NoException)
                  /\ device' = dev2
                  /\ attention_slicing' =
                       \/ attention_slicing
                       \/ early
                       \/ branch = "slicing"
                       \/ (dev2 = "mps" /\ ~is_sdxl)
                  /\ xformers' = (dev2 = "cuda")
                  /\ Goto("lora", {})
  /\ UNCHANGED <<diskVars, adapter, backend, detectVars, memVars, loadVars, schedVars,
                 loraVars, genVars>>

Placement == PlacementWith(PlacementOutcomes)
PlacementAny == PlacementWith(AllPlacementOutcomes)

\* ------------------------------------------------------------ LoRA composer
\* A LoRA path is named by what the composer finds there.
LoraFileStates == {"ok", "missing", "corrupt"}
WeightValues == {8, 10}

SeqsUpTo(S, n) == UNION { [1..k -> S] : k \in 0..n }

\* The head of the LoRA block: nothing to do without paths, else default and
\* pad the weights.
LoraStart ==
  /\ pc = "lora"
  /\ invoked' = Append(invoked, "lora")
  /\ IF lora_paths = <<>>
     THEN Goto("seed", {}) /\ UNCHANGED <<lora_weights, lora_i>>
     ELSE /\ lora_weights' = [is_none |-> FALSE,
                              list |-> PadWeights(Len(lora_paths), lora_weights)]
          /\ lora_i' = 1
          /\ Goto("lora_loop", {})
  /\ UNCHANGED <<diskVars, adapter, devVars, detectVars, memVars, loadVars, schedVars,
                 placeVars, lora_paths, load_calls, loaded_adapters,
                 set_adapters_calls, genVars>>

\* adapter_name = f"lora_{i}" for the i-th path, counted from 0.
AdapterName(i) == i - 1

\* Mutant: an adapter gets the weight of the position before its own.
LoadedEntryShifted(file_state, i, weights) ==
  IF file_state = "ok"
  THEN << [name |-> AdapterName(i),
           weight |-> WeightAt(weights, IF i > 1 THEN i - 1 ELSE i)] >>
  ELSE << >>

\* What one iteration of the loading loop appends to loaded_adapters.
LoadedEntry(file_state, i, weights) ==
  IF file_state = "ok"
  THEN << [name |-> AdapterName(i), weight |-> WeightAt(weights, i)] >>
  ELSE << >>

\* Mutant: a missing file ends the loop (break instead of continue).
AfterLoraPathBreak(file_state, i, n) ==
  IF i = n \/ file_state = "missing" THEN "lora_set" ELSE "lora_loop"

\* Where the loop goes after path i of n: a missing file and a failed load
\* both continue with the next path.
AfterLoraPath(file_state, i, n) == IF i = n THEN "lora_set" ELSE "lora_loop"

\* One iteration of the loading loop, for path number lora_i.
LoraLoad ==
  /\ pc = "lora_loop"
  /\ LET st == lora_paths[lora_i]
     IN /\ load_calls' = IF st = "missing" THEN load_calls
                         ELSE Append(load_calls, AdapterName(lora_i))
        /\ loaded_adapters' = loaded_adapters \o LoadedEntry(st, lora_i, lora_weights.list)
        /\ lora_i' = lora_i + 1
        /\ Goto(AfterLoraPath(st, lora_i, Len(lora_paths)),
                CASE st = "missing" -> {"lora_not_found_skipping"}
                  [] st = "corrupt" -> {"lora_load_failed"}
                  [] OTHER -> {})
  /\ UNCHANGED <<diskVars, adapter, invoked, devVars, detectVars, memVars, loadVars, schedVars,
                 placeVars, lora_paths, lora_weights, set_adapters_calls, genVars>>

\* Mutant: one set_adapters call per loaded adapter.
SetAdaptersOneByOne(loaded) ==
  [k \in 1..Len(loaded) |->
     [names |-> <<loaded[k].name>>, weights |-> <<loaded[k].weight>>]]

\* The set_adapters calls the composer makes for a list of loaded adapters.
SetAdaptersCalls(loaded) ==
  IF Len(loaded) > 1
  THEN << [names |-> [k \in 1..Len(loaded) |-> loaded[k].name],
           weights |-> [k \in 1..Len(loaded) |-> loaded[k].weight]] >>
  ELSE IF Len(loaded) = 1 /\ loaded[1].weight # DefaultWeight
       THEN << [names |-> <<loaded[1].name>>, weights |-> <<loaded[1].weight>>] >>
       ELSE << >>

LoraSetAdapters ==
  /\ pc = "lora_set"
  /\ set_adapters_calls' = set_adapters_calls \o SetAdaptersCalls(loaded_adapters)
  /\ Goto("seed", {})
  /\ UNCHANGED <<diskVars, adapter, invoked, devVars, detectVars, memVars, loadVars, schedVars,
                 placeVars, lora_paths, lora_weights, lora_i, load_calls,
                 loaded_adapters, genVars>>

\* ------------------------------------------------------- generation driver
\* model_type.lower() in ["zimage", "flux", "sd3", "qwenimage"]
SkipCompel(mt) ==
  LowerWords(mt) \in {<<"zimage">>, <<"flux">>, <<"sd3">>, <<"qwen", "image">>}

\* The generator, the Compel step and the one sampling call.
Sample ==
  /\ pc = "seed"
  /\ \E compel_available \in BOOLEAN, has_tokenizer \in BOOLEAN,
        compel_ok \in BOOLEAN, sampling_ok \in BOOLEAN :
       LET use_compel == compel_available /\ ~SkipCompel(model_type) /\ has_tokenizer
       IN /\ use_compel \/ compel_ok
          /\ compel_available \/ has_tokenizer
          /\ generator_device' = device
          /\ compel_used' = (use_compel /\ compel_ok)
          /\ sample_calls' = sample_calls + 1
          /\ IF sampling_ok
             THEN Goto("save", IF use_compel /\ ~compel_ok
                               THEN {"compel_failed"} ELSE {})
             ELSE Raise("sampling failed", FALSE,
                        IF use_compel /\ ~compel_ok THEN {"compel_failed"} ELSE {})
  /\ UNCHANGED <<diskVars, adapter, invoked, devVars, detectVars, memVars, loadVars, schedVars,
                 placeVars, loraVars, num_images, saved_paths, json_out,
                 metadata_scheduler>>

\* Saving the images and printing the JSON result block.
Save ==
  /\ pc = "save"
  /\ \E n \in {1, 2}, written \in 0..2 :
       /\ written <= n
       /\ num_images' = n
       /\ saved_paths' = written
       /\ IF written = n
          THEN /\ json_out' = json_out + 1
               /\ metadata_scheduler' = scheduler
               /\ Goto("returned", {})
          ELSE /\ UNCHANGED <<json_out, metadata_scheduler>>
               /\ Raise("image save failed", FALSE, {})
  /\ UNCHANGED <<diskVars, adapter, invoked, devVars, detectVars, memVars, loadVars, schedVars,
                 placeVars, loraVars, generator_device, compel_used, sample_calls>>

\* main(): generate_image returned.
MainReturn ==
  /\ pc = "returned"
  /\ pc' = "done"
  /\ exit_code' = 0
  /\ log' = log \cup {"success_line"}
  /\ UNCHANGED <<error, diskVars, adapter, invoked, devVars, detectVars, memVars, loadVars, schedVars,
                 placeVars, loraVars, genVars>>

\* Mutant: the except clause of main() returns 0.
MainExceptReturnsZero ==
  /\ pc = "raised"
  /\ pc' = "done"
  /\ exit_code' = 0
  /\ log' = log \cup {"stderr_error"}
  /\ UNCHANGED <<error, diskVars, adapter, invoked, devVars, detectVars, memVars, loadVars, schedVars,
                 placeVars, loraVars, genVars>>

\* main(): generate_image raised.
MainExcept ==
  /\ pc = "raised"
  /\ pc' = "done"
  /\ exit_code' = 1
  /\ log' = log \cup {"stderr_error"}
  /\ UNCHANGED <<error, diskVars, adapter, invoked, devVars, detectVars, memVars, loadVars, schedVars,
                 placeVars, loraVars, genVars>>

Next ==
  \/ CheckInputs \/ SelectDevice \/ DetectPipeline \/ WeightAdapter
  \/ MemoryAndPrecision \/ LoadPipeline \/ ResolveScheduler \/ Placement
  \/ LoraStart \/ LoraLoad \/ LoraSetAdapters
  \/ Sample \/ Save \/ MainReturn \/ MainExcept

Spec == Init /\ [][Next]_vars

\* ------------------------------------------- the LoRA composer on its own
\* A request that has loaded a single-file Stable Diffusion model on cpu with
\* the euler scheduler and stands before the LoRA block, for every LoRA
\* request of up to MaxLoras paths.
LoraRequests ==
  [paths : SeqsUpTo(LoraFileStates, MaxLoras),
   weights : {NoWeights} \cup [is_none : {FALSE}, list : SeqsUpTo(WeightValues, MaxLoras)]]

InitLora ==
  /\ pc = "lora" /\ error = "none" /\ exit_code = -1 /\ log = {}
  /\ manifest = "single_file" /\ weights_file = "absent"
  /\ cache_file = "absent" /\ backup_file = "absent"
  /\ device = "cpu" /\ backend = "cpu"
  /\ scheduler = "euler"
  /\ is_img2img = FALSE /\ PipelineClass = "StableDiffusionPipeline"
  /\ model_type = DefaultType
  /\ model_files = <<8>> /\ system_ram = 16 /\ mem_detect_ok = TRUE
  /\ use_low_memory = FALSE /\ dtype = "fp32"
  /\ original_scheduler_class = "PNDMScheduler" /\ is_sdxl = FALSE
  /\ components_fp32 = "none"
  /\ pipe_scheduler = [cls |-> "EulerDiscreteScheduler", built |-> "pipeline_config"]
  /\ get_scheduler_calls = 1
  /\ attention_slicing = FALSE /\ offload = "none" /\ to_calls = 1 /\ placed = TRUE
  /\ place_exc = NoException /\ xformers = FALSE
  /\ \E r \in LoraRequests : lora_paths = r.paths /\ lora_weights = r.weights
  /\ lora_i = 0 /\ load_calls = <<>>
  /\ loaded_adapters = <<>> /\ set_adapters_calls = <<>>
  /\ generator_device = "unset" /\ compel_used = FALSE /\ sample_calls = 0
  /\ num_images = 0 /\ saved_paths = 0 /\ json_out = 0
  /\ metadata_scheduler = "unset" /\ adapter = NoAdapterRuns
  /\ invoked = <<"device_precision", "descriptor", "weights", "memory",
                 "device_precision", "scheduler", "placement">>
  /\ pipeline_config = LoadedConfig("PNDMScheduler")
  /\ built_config = get_scheduler("euler", pipeline_config, TRUE, TRUE).config

NextLora ==
  \/ LoraStart \/ LoraLoad \/ LoraSetAdapters
  \/ Sample \/ Save \/ MainReturn \/ MainExcept

SpecLora == InitLora /\ [][NextLora]_vars

\* ------------------------------------- the memory budget estimator on its own
\* should_use_low_memory applied, request after request, to a model directory
\* that only grows (a file gets 1 GB larger, or a file is added) on a machine
\* whose memory stays the same.
ModelFileSets == SeqsUpTo(0..MaxFileGB, MaxFiles) \ {<<>>}

GrownByOne(old, new) ==
  \/ new = old
  \/ Len(new) = Len(old) + 1 /\ SubSeq(new, 1, Len(old)) = old
  \/ /\ Len(new) = Len(old)
     /\ \E i \in 1..Len(old) :
          new = [old EXCEPT ![i] = old[i] + 1]

InitMem ==
  /\ pc = "memory" /\ error = "none" /\ exit_code = -1 /\ log = {}
  /\ manifest = "ZImagePipeline" /\ weights_file = "absent"
  /\ cache_file = "absent" /\ backup_file = "absent"
  /\ device = "cpu" /\ backend = "cpu"
  /\ scheduler = "euler"
  /\ is_img2img = FALSE /\ PipelineClass = "ZImagePipeline" /\ model_type = "ZImage"
  /\ model_files \in ModelFileSets /\ system_ram \in 1..MaxRamGB
  /\ mem_detect_ok = FALSE /\ use_low_memory = FALSE /\ dtype = "unset"
  /\ original_scheduler_class = "unset" /\ is_sdxl = FALSE
  /\ components_fp32 = "none"
  /\ pipe_scheduler = [cls |-> "unset", built |-> "none"] /\ get_scheduler_calls = 0
  /\ attention_slicing = FALSE /\ offload = "none" /\ to_calls = 0 /\ placed = FALSE
  /\ place_exc = NoException /\ xformers = FALSE
  /\ lora_paths = <<>> /\ lora_weights = NoWeights
  /\ lora_i = 0 /\ load_calls = <<>>
  /\ loaded_adapters = <<>> /\ set_adapters_calls = <<>>
  /\ generator_device = "unset" /\ compel_used = FALSE /\ sample_calls = 0
  /\ num_images = 0 /\ saved_paths = 0 /\ json_out = 0
  /\ metadata_scheduler = "unset" /\ adapter = NoAdapterRuns
  /\ invoked = <<"device_precision", "descriptor", "weights">>
  /\ pipeline_config = {} /\ built_config = {}

\* One call of should_use_low_memory on the model as it is now.
EstimateMemory ==
  /\ pc = "memory"
  /\ \E files \in ModelFileSets, detect_ok \in BOOLEAN :
       /\ GrownByOne(model_files, files)
       /\ model_files' = files
       /\ mem_detect_ok' = detect_ok
       /\ use_low_memory' = should_use_low_memory(files, system_ram, detect_ok)
  /\ UNCHANGED <<ctlVars, diskVars, adapter, invoked, system_ram, dtype, devVars, detectVars, loadVars,
                 schedVars, placeVars, loraVars, genVars>>

NextMem == EstimateMemory

SpecMem == InitMem /\ [][NextMem]_vars

\* ------------------------------------ placement and what follows, on its own
\* A request for the euler scheduler that has loaded its model and passed the
\* scheduler resolver, on each backend: a single-file Stable Diffusion model
\* (SDXL or not) whose scheduler was replaced, or a ZImage or QwenImageEdit
\* directory whose flow-matching scheduler was kept.
LoadedModels ==
  { [manifest |-> "single_file", cls |-> "PNDMScheduler", sdxl |-> FALSE],
    [manifest |-> "single_file", cls |-> "PNDMScheduler", sdxl |-> TRUE],
    [manifest |-> "QwenImageEditPipeline", cls |-> "FlowMatchEulerDiscreteScheduler",
     sdxl |-> FALSE],
    [manifest |-> "ZImagePipeline", cls |-> "FlowMatchEulerDiscreteScheduler",
     sdxl |-> FALSE] }

InitPlace ==
  /\ pc = "place" /\ error = "none" /\ exit_code = -1
  /\ \E m \in LoadedModels :
       /\ manifest = m.manifest
       /\ original_scheduler_class = m.cls
       /\ is_sdxl = m.sdxl
  /\ weights_file = "absent" /\ cache_file = "absent" /\ backup_file = "absent"
  /\ device \in {"mps", "cuda", "cpu"} /\ backend = device
  /\ scheduler = "euler"
  /\ is_img2img = FALSE
  /\ PipelineClass = detect_pipeline_class(manifest, FALSE)[1]
  /\ model_type = detect_pipeline_class(manifest, FALSE)[2]
  /\ \E m \in MemoryScenarios : model_files = m.files /\ system_ram = m.ram
  /\ mem_detect_ok \in BOOLEAN
  /\ use_low_memory = should_use_low_memory(model_files, system_ram, mem_detect_ok)
  /\ \E mps_still_available \in BOOLEAN, bf16_alloc_ok \in BOOLEAN, cuda_bf16 \in BOOLEAN :
       dtype = SelectDtype(device, IsZImage(model_type), mps_still_available,
                           bf16_alloc_ok, cuda_bf16, use_low_memory)
  /\ components_fp32 =
       IF device = "mps" /\ ~IsZImage(model_type)
       THEN IF is_sdxl THEN "all" ELSE "vae"
       ELSE "none"
  /\ IF ShouldUseOriginal(scheduler, original_scheduler_class, model_type)
     THEN /\ pipe_scheduler = [cls |-> original_scheduler_class, built |-> "model"]
          /\ get_scheduler_calls = 0
          /\ log = (IF HasFlowMatch(original_scheduler_class)
                    THEN {"flow_matching_using_original"} ELSE {})
                   \cup (IF StrictSchedulerType(model_type)
                         THEN {"preserving_original"} ELSE {})
     ELSE /\ pipe_scheduler = [cls |-> SCHEDULERS[scheduler], built |-> "pipeline_config"]
          /\ get_scheduler_calls = 1
          /\ log = {}
  /\ attention_slicing = FALSE /\ offload = "none" /\ to_calls = 0 /\ placed = FALSE
  /\ place_exc = NoException /\ xformers = FALSE
  /\ \E r \in MainLoraRequests : lora_paths = r.paths /\ lora_weights = r.weights
  /\ lora_i = 0 /\ load_calls = <<>>
  /\ loaded_adapters = <<>> /\ set_adapters_calls = <<>>
  /\ generator_device = "unset" /\ compel_used = FALSE /\ sample_calls = 0
  /\ num_images = 0 /\ saved_paths = 0 /\ json_out = 0
  /\ metadata_scheduler = "unset" /\ adapter = NoAdapterRuns
  /\ invoked = <<"device_precision", "descriptor", "weights", "memory",
                 "device_precision", "scheduler">>
  /\ pipeline_config = LoadedConfig(original_scheduler_class)
  /\ built_config =
       IF ShouldUseOriginal(scheduler, original_scheduler_class, model_type)
       THEN {}
       ELSE get_scheduler(scheduler, pipeline_config, TRUE, TRUE).config

NextPlace ==
  \/ PlacementAny
  \/ LoraStart \/ LoraLoad \/ LoraSetAdapters
  \/ Sample \/ Save \/ MainReturn \/ MainExcept

\* A request is one process that runs until main() returns: no step of it is
\* postponed for ever.
SpecPlace == InitPlace /\ [][NextPlace]_vars /\ WF_vars(NextPlace)

\* ------------------------------------------ pipeline detection on its own
\* A request that has passed the input checks, before detect_pipeline_class,
\* for everything model_path may hold: each manifest, text-to-image or
\* image-to-image, and each layout of the transformer directory (untouched,
\* remapped by an earlier request, or left half-way by an aborted one).
TransformerLayouts ==
  { [weights |-> "absent", cache |-> "absent", backup |-> "absent"],
    [weights |-> "fused", cache |-> "absent", backup |-> "absent"],
    [weights |-> "fused_odd", cache |-> "absent", backup |-> "absent"],
    [weights |-> "split", cache |-> "absent", backup |-> "absent"],
    [weights |-> "fused", cache |-> "remapped", backup |-> "absent"],
    [weights |-> "absent", cache |-> "remapped", backup |-> "fused"],
    [weights |-> "link", cache |-> "remapped", backup |-> "fused"] }

InitDetect ==
  /\ pc = "detect" /\ error = "none" /\ exit_code = -1 /\ log = {}
  /\ manifest \in Manifests
  /\ \E t \in TransformerLayouts :
       /\ weights_file = t.weights /\ cache_file = t.cache /\ backup_file = t.backup
       /\ manifest \in {"single_file", "no_manifest"} => t.weights = "absent" /\ t.cache = "absent"
  /\ device = "cpu" /\ backend = "cpu"
  /\ scheduler = "euler"
  /\ is_img2img \in BOOLEAN
  /\ PipelineClass = "unset" /\ model_type = "unset"
  /\ model_files = <<8>> /\ system_ram = 16
  /\ mem_detect_ok = FALSE /\ use_low_memory = FALSE /\ dtype = "unset"
  /\ original_scheduler_class = "unset" /\ is_sdxl = FALSE
  /\ components_fp32 = "none"
  /\ pipe_scheduler = [cls |-> "unset", built |-> "none"] /\ get_scheduler_calls = 0
  /\ attention_slicing = FALSE /\ offload = "none" /\ to_calls = 0 /\ placed = FALSE
  /\ place_exc = NoException /\ xformers = FALSE
  /\ lora_paths = <<>> /\ lora_weights = NoWeights
  /\ lora_i = 0 /\ load_calls = <<>>
  /\ loaded_adapters = <<>> /\ set_adapters_calls = <<>>
  /\ generator_device = "unset" /\ compel_used = FALSE /\ sample_calls = 0
  /\ num_images = 0 /\ saved_paths = 0 /\ json_out = 0
  /\ metadata_scheduler = "unset" /\ adapter = NoAdapterRuns
  /\ invoked = <<"device_precision">>
  /\ pipeline_config = {} /\ built_config = {}

NextDetect == DetectPipeline

SpecDetect == InitDetect /\ [][NextDetect]_vars

\* ---------------------------------------- the scheduler resolver on its own
\* A request on cpu that has loaded a single-file Stable Diffusion model and
\* stands before the scheduler resolver, for every scheduler name and every
\* pipeline scheduler configuration of up to MaxConfigKeys keys.
ConfigKeys == IncompatibleKeys \cup {"num_train_timesteps", "solver_order"}
PipelineConfigs ==
  { { <<k, "pipeline">> : k \in K } :
      K \in { K \in SUBSET ConfigKeys : Cardinality(K) <= MaxConfigKeys } }

InitSched ==
  /\ pc = "scheduler" /\ error = "none" /\ exit_code = -1 /\ log = {}
  /\ manifest = "single_file" /\ weights_file = "absent"
  /\ cache_file = "absent" /\ backup_file = "absent"
  /\ device = "cpu" /\ backend = "cpu"
  /\ scheduler \in DOMAIN SCHEDULERS \cup RequestedSchedulers
  /\ is_img2img = FALSE /\ PipelineClass = "StableDiffusionPipeline"
  /\ model_type = DefaultType
  /\ model_files = <<8>> /\ system_ram = 16 /\ mem_detect_ok = TRUE
  /\ use_low_memory = FALSE /\ dtype = "fp32"
  /\ original_scheduler_class = "PNDMScheduler" /\ is_sdxl = FALSE
  /\ components_fp32 = "none"
  /\ pipe_scheduler = [cls |-> "PNDMScheduler", built |-> "model"]
  /\ get_scheduler_calls = 0
  /\ attention_slicing = FALSE /\ offload = "none" /\ to_calls = 0 /\ placed = FALSE
  /\ place_exc = NoException /\ xformers = FALSE
  /\ lora_paths = <<>> /\ lora_weights = NoWeights
  /\ lora_i = 0 /\ load_calls = <<>>
  /\ loaded_adapters = <<>> /\ set_adapters_calls = <<>>
  /\ generator_device = "unset" /\ compel_used = FALSE /\ sample_calls = 0
  /\ num_images = 0 /\ saved_paths = 0 /\ json_out = 0
  /\ metadata_scheduler = "unset" /\ adapter = NoAdapterRuns
  /\ invoked = <<"device_precision", "descriptor", "weights", "memory",
                 "device_precision">>
  /\ pipeline_config \in PipelineConfigs /\ built_config = {}

NextSched == ResolveScheduler

SpecSched == InitSched /\ [][NextSched]_vars

\* ------------------------------- the Weight Adapter, one file operation at a time
\* The Weight Adapter block of generate_image with remap_fp8_weights, for the
\* requests of Runs against one model directory.  Each request is a process of
\* its own, so the steps of two requests interleave at every file operation.
\* The directory entries are weights_file, cache_file and backup_file:
\* "absent", a file named by its content ("fused", "fused_odd": fused qkv keys
\* whose leading dimension is, or is not, a multiple of three; "split";
\* "remapped"; "partial": a cache file whose write has begun and not ended),
\* or "link", the symbolic link to the cache file's name.  A request may be
\* killed between any two of its steps.

\* Path.exists(): follows a symbolic link.
Exists(entry) == entry # "absent" /\ (entry = "link" => cache_file # "absent")

\* load_file(path): the keys read, through a symbolic link if there is one.
Content(entry) == IF entry = "link" THEN cache_file ELSE entry

\* Mutant: every weight file is taken to need the remap.
NeedsRemapAlways(state_dict) == TRUE

\* needs_remap = any('.attention.qkv.weight' in key for key in state_dict.keys())
NeedsRemap(state_dict) == state_dict \in {"fused", "fused_odd"}

\* hidden_dim = value.shape[0] // 3; q, k, v = torch.split(value, hidden_dim, dim=0)
\* unpacks into three only when the leading dimension is a multiple of three.
SplitsInThree(state_dict) == state_dict # "fused_odd"

\* Mutant: renaming a missing source is silently ignored.
RenameIgnoresMissing(src, dst) ==
  IF src = "absent" THEN [src |-> src, dst |-> dst] ELSE [src |-> "absent", dst |-> src]

\* Mutant: the rename leaves the source where it was.
RenameCopies(src, dst) ==
  IF src = "absent"
  THEN [raise |-> "FileNotFoundError: rename"]
  ELSE [src |-> src, dst |-> src]

\* os.rename(src, dst): the entry moves to dst, replacing what was there; a
\* missing source raises.
os_rename(src, dst) ==
  IF src = "absent"
  THEN [raise |-> "FileNotFoundError: rename"]
  ELSE [src |-> "absent", dst |-> src]

\* The errors of the adapter that come from the other request's steps, and
\* those that come from the file system or the weight file itself.
RaceErrors ==
  {"FileNotFoundError: load_file", "FileNotFoundError: rename",
   "FileNotFoundError: unlink", "FileExistsError: symlink"}
AdapterErrors ==
  RaceErrors \cup {"weight file load failed", "ValueError: qkv split",
                   "OSError: save_file", "OSError: rename", "OSError: symlink"}

Other(r) == CHOOSE o \in Runs : o # r
Completed(r) == adapter[r].pc = "done" /\ adapter[r].error = "none"

AdapterGoto(r, next) == adapter' = [adapter EXCEPT ![r].pc = next]
AdapterRaise(r, err) ==
  adapter' = [adapter EXCEPT ![r].pc = "raised", ![r].error = err,
                             ![r].stopped_at = adapter[r].pc]
AdapterOp(r, op, next) ==
  adapter' = [adapter EXCEPT ![r].pc = next, ![r].ops = Append(@, op)]

mainVars == <<ctlVars, invoked, devVars, detectVars, memVars, loadVars, schedVars,
              placeVars, loraVars, genVars>>

\* A request reaches the Weight Adapter block.
AdapterBegin(r) ==
  /\ pc = "remap" /\ adapter[r].pc = "idle"
  /\ adapter' = [adapter EXCEPT ![r].pc = "exists",
                                ![r].after_completed = Completed(Other(r)),
                                ![r].after_aborted = (adapter[Other(r)].pc = "raised")]
  /\ UNCHANGED <<diskVars, mainVars>>

\* is_multipart, transformer_dir.exists(), transformer_weights.exists()
AdapterExists(r) ==
  /\ pc = "remap" /\ adapter[r].pc = "exists"
  /\ AdapterGoto(r, IF IsMultipart /\ Exists(weights_file) THEN "load" ELSE "done")
  /\ UNCHANGED <<diskVars, mainVars>>

\* remap_fp8_weights: load_file and the needs_remap test.
AdapterLoad(r) ==
  /\ pc = "remap" /\ adapter[r].pc = "load"
  /\ \E load_ok \in BOOLEAN :
       IF ~Exists(weights_file)
       THEN AdapterRaise(r, "FileNotFoundError: load_file")
       ELSE IF ~load_ok \/ Content(weights_file) = "partial"
            THEN AdapterRaise(r, "weight file load failed")
            ELSE adapter' = [adapter EXCEPT
                   ![r].needs_remap = IF NeedsRemap(Content(weights_file))
                                      THEN Content(weights_file) ELSE "false",
                   ![r].pc = IF NeedsRemap(Content(weights_file))
                             THEN "split" ELSE "done"]
  /\ UNCHANGED <<diskVars, mainVars>>

\* remap_fp8_weights: the loop that renames keys and splits the fused ones.
AdapterSplit(r) ==
  /\ pc = "remap" /\ adapter[r].pc = "split"
  /\ IF SplitsInThree(adapter[r].needs_remap)
     THEN AdapterGoto(r, "cache_check")
     ELSE AdapterRaise(r, "ValueError: qkv split")
  /\ UNCHANGED <<diskVars, mainVars>>

\* remap_fp8_weights: if not remapped_path.exists()
AdapterCacheCheck(r) ==
  /\ pc = "remap" /\ adapter[r].pc = "cache_check"
  /\ AdapterGoto(r, IF Exists(cache_file) THEN "backup_check" ELSE "cache_write")
  /\ UNCHANGED <<diskVars, mainVars>>

\* remap_fp8_weights: save_file(remapped, remapped_path) creates the file and
\* starts writing it ...
AdapterCacheWrite(r) ==
  /\ pc = "remap" /\ adapter[r].pc = "cache_write"
  /\ cache_file' = "partial"
  /\ AdapterOp(r, "save_file", "cache_writing")
  /\ UNCHANGED <<manifest, weights_file, backup_file, mainVars>>

\* ... and writes it to the end, or raises and leaves what it wrote.
AdapterCacheWritten(r) ==
  /\ pc = "remap" /\ adapter[r].pc = "cache_writing"
  /\ \E write_ok \in BOOLEAN :
       IF write_ok
       THEN cache_file' = "remapped" /\ AdapterGoto(r, "backup_check")
       ELSE AdapterRaise(r, "OSError: save_file") /\ UNCHANGED cache_file
  /\ UNCHANGED <<manifest, weights_file, backup_file, mainVars>>

\* if remapped_weights != transformer_weights: if not backup_path.exists()
AdapterBackupCheck(r) ==
  /\ pc = "remap" /\ adapter[r].pc = "backup_check"
  /\ IF Exists(backup_file)
     THEN AdapterGoto(r, "link_check")
     ELSE adapter' = [adapter EXCEPT ![r].pc = "rename", ![r].chose_rename = TRUE]
  /\ UNCHANGED <<diskVars, mainVars>>

\* os.rename(transformer_weights, backup_path)
AdapterRename(r) ==
  /\ pc = "remap" /\ adapter[r].pc = "rename"
  /\ \E rename_ok \in BOOLEAN :
       LET moved == os_rename(weights_file, backup_file)
       IN IF ~rename_ok
          THEN /\ AdapterRaise(r, "OSError: rename")
               /\ UNCHANGED <<weights_file, backup_file>>
          ELSE IF "raise" \in DOMAIN moved
               THEN /\ AdapterRaise(r, moved.raise)
                    /\ UNCHANGED <<weights_file, backup_file>>
               ELSE /\ weights_file' = moved.src
                    /\ backup_file' = moved.dst
                    /\ AdapterOp(r, "rename", "link_check")
  /\ UNCHANGED <<manifest, cache_file, mainVars>>

\* if transformer_weights.exists()
AdapterLinkCheck(r) ==
  /\ pc = "remap" /\ adapter[r].pc = "link_check"
  /\ AdapterGoto(r, IF Exists(weights_file) THEN "unlink" ELSE "symlink")
  /\ UNCHANGED <<diskVars, mainVars>>

\* transformer_weights.unlink()
AdapterUnlink(r) ==
  /\ pc = "remap" /\ adapter[r].pc = "unlink"
  /\ IF weights_file = "absent"
     THEN AdapterRaise(r, "FileNotFoundError: unlink") /\ UNCHANGED weights_file
     ELSE weights_file' = "absent" /\ AdapterOp(r, "unlink", "symlink")
  /\ UNCHANGED <<manifest, cache_file, backup_file, mainVars>>

\* os.symlink(remapped_weights.name, transformer_weights)
AdapterSymlink(r) ==
  /\ pc = "remap" /\ adapter[r].pc = "symlink"
  /\ \E link_ok \in BOOLEAN :
       IF weights_file # "absent"
       THEN AdapterRaise(r, "FileExistsError: symlink") /\ UNCHANGED weights_file
       ELSE IF ~link_ok
            THEN AdapterRaise(r, "OSError: symlink") /\ UNCHANGED weights_file
            ELSE weights_file' = "link" /\ AdapterOp(r, "symlink", "done")
  /\ UNCHANGED <<manifest, cache_file, backup_file, mainVars>>

\* The process of a request is killed inside the Weight Adapter.
AdapterKill(r) ==
  /\ pc = "remap" /\ adapter[r].pc \notin {"idle", "done", "raised"}
  /\ AdapterRaise(r, "interrupted")
  /\ UNCHANGED <<diskVars, mainVars>>

\* A model directory no request has touched: a transformer weight file that is
\* absent, fused (splittable or not) or already split; no cache, no backup.
InitRemap ==
  /\ pc = "remap" /\ error = "none" /\ exit_code = -1 /\ log = {}
  /\ manifest \in {"single_file", "ZImagePipeline"}
  /\ weights_file \in {"absent", "fused", "fused_odd", "split"}
  /\ manifest = "single_file" => weights_file = "absent"
  /\ cache_file = "absent" /\ backup_file = "absent"
  /\ device = "cpu" /\ backend = "cpu"
  /\ scheduler = "euler"
  /\ is_img2img = FALSE
  /\ PipelineClass = detect_pipeline_class(manifest, FALSE)[1]
  /\ model_type = detect_pipeline_class(manifest, FALSE)[2]
  /\ model_files = <<8>> /\ system_ram = 16
  /\ mem_detect_ok = FALSE /\ use_low_memory = FALSE /\ dtype = "unset"
  /\ original_scheduler_class = "unset" /\ is_sdxl = FALSE
  /\ components_fp32 = "none"
  /\ pipe_scheduler = [cls |-> "unset", built |-> "none"] /\ get_scheduler_calls = 0
  /\ attention_slicing = FALSE /\ offload = "none" /\ to_calls = 0 /\ placed = FALSE
  /\ place_exc = NoException /\ xformers = FALSE
  /\ lora_paths = <<>> /\ lora_weights = NoWeights
  /\ lora_i = 0 /\ load_calls = <<>>
  /\ loaded_adapters = <<>> /\ set_adapters_calls = <<>>
  /\ generator_device = "unset" /\ compel_used = FALSE /\ sample_calls = 0
  /\ num_images = 0 /\ saved_paths = 0 /\ json_out = 0
  /\ metadata_scheduler = "unset" /\ adapter = NoAdapterRuns
  /\ invoked = <<"device_precision", "descriptor">>
  /\ pipeline_config = {} /\ built_config = {}

NextRemap ==
  \E r \in Runs :
    \/ AdapterBegin(r) \/ AdapterExists(r) \/ AdapterLoad(r) \/ AdapterSplit(r)
    \/ AdapterCacheCheck(r) \/ AdapterCacheWrite(r) \/ AdapterCacheWritten(r)
    \/ AdapterBackupCheck(r)
    \/ AdapterRename(r) \/ AdapterLinkCheck(r) \/ AdapterUnlink(r)
    \/ AdapterSymlink(r) \/ AdapterKill(r)

SpecRemap == InitRemap /\ [][NextRemap]_vars

\* ================================================================== claims
\* Positions of a run.
AfterPlacement == pc \in {"lora", "lora_loop", "lora_set", "seed"} \/ sample_calls > 0
PastSchedulerResolver ==
  pc \in {"place", "lora", "lora_loop", "lora_set", "seed", "save", "returned"}
  \/ sample_calls > 0 \/ to_calls > 0
Ended == pc \in {"raised", "done"}
IsFlowFamily == IsZImage(model_type)

\* The valid precisions of a (backend, family) pair, as the claim lists them.
ValidPrecisions(b, flow) ==
  CASE b = "mps" /\ ~flow -> {"fp32"}
    [] b = "mps" /\ flow -> {"bf16", "fp32"}
    [] b = "cuda" -> {"bf16", "fp16"}
    [] b = "cpu" -> {"fp16", "fp32"}
    [] OTHER -> {}

\* C1: once generate_image has chosen a precision, it lies in the valid set
\* of the resolved backend and the model family (the family as the precision
\* policy classifies it), whatever the probes and the memory detection said.
C1_PrecisionInValidSet ==
  dtype # "unset" => dtype \in ValidPrecisions(backend, IsFlowFamily)

C1_Witness ==
  /\ backend = "mps" /\ IsFlowFamily /\ dtype = "bf16" /\ use_low_memory
  /\ pc = "load"

\* C2: with backend mps and an SDE scheduler requested, the run never gets
\* past the scheduler resolver: get_scheduler is not called, the pipeline's
\* scheduler is not replaced, nothing is sampled or written, the exit code is
\* 1, and a run that reaches the resolver (the model loaded) ends in the
\* ValueError whose message offers a non-SDE registry scheduler -- for every
\* family, flow-matching pipelines included.
C2_SdeOnMpsRejected ==
  (backend = "mps" /\ scheduler \in SdeSchedulers) =>
     /\ ~PastSchedulerResolver
     /\ get_scheduler_calls = 0
     /\ pipe_scheduler.built \in {"none", "model"}
     /\ sample_calls = 0 /\ saved_paths = 0 /\ json_out = 0
     /\ pc = "done" => exit_code = 1
     /\ (Ended /\ original_scheduler_class # "unset") =>
           /\ error = SdeError
           /\ "sde_alternatives_listed" \in log
           /\ \E s \in ErrorNames(error) : s \in DOMAIN SCHEDULERS /\ s \notin SdeSchedulers

C2_Witness ==
  /\ backend = "mps" /\ scheduler = "dpm++_sde_karras"
  /\ HasFlowMatch(original_scheduler_class) /\ model_type = "ZImage"
  /\ pc = "done" /\ exit_code = 1 /\ error = SdeError

\* C3: for a flow-matching family (as the precision policy classifies it) and
\* a requested scheduler that is not a flow-match one, a run that passes the
\* scheduler resolver has kept the pipeline's original scheduler without
\* calling get_scheduler and has logged the override.
C3_FlowFamilyKeepsScheduler ==
  (IsFlowFamily /\ scheduler \notin FlowMatchSchedulers /\ PastSchedulerResolver) =>
     /\ get_scheduler_calls = 0
     /\ pipe_scheduler = [cls |-> original_scheduler_class, built |-> "model"]
     /\ log \cap {"flow_matching_using_original", "preserving_original"} # {}

\* C4: whenever the estimated model size exceeds 0.75 x system memory, the mode
\* reached before sampling is not standard: slicing or an offload is on and the
\* pipeline was not plainly placed on the device.
C4_LowMemoryNeverStandard ==
  (pc = "seed" /\ mem_detect_ok /\ 100 * SumSizes(model_files) > 75 * system_ram) =>
     /\ attention_slicing \/ offload # "none"
     /\ ~placed

\* C5: when the detection runs through, should_use_low_memory answers true
\* exactly when the sum of the file sizes exceeds 0.75 x system memory
\* (strictly), and on a model that only grows the answer never goes from true
\* back to false.
C5_Exact ==
  mem_detect_ok =>
    (use_low_memory <=> 100 * SumSizes(model_files) > 75 * system_ram)
C5_Monotone ==
  (mem_detect_ok /\ use_low_memory /\ mem_detect_ok') => use_low_memory'
C6_MpsAlwaysSliced ==
  (backend = "mps" /\ sample_calls > 0) => attention_slicing

\* C7: on cpu with low-memory mode the run uses fp16, never calls pipe.to,
\* enables no offload, stays on cpu and has attention slicing on once the
\* placement block is done; on cpu without low-memory mode it uses fp32.
C7_CpuLowMemory ==
  (backend = "cpu" /\ dtype # "unset") =>
     /\ use_low_memory =>
          /\ dtype = "fp16" /\ to_calls = 0 /\ ~placed /\ offload = "none"
          /\ device = "cpu"
          /\ AfterPlacement => attention_slicing
     /\ ~use_low_memory => dtype = "fp32"

C7_Witness ==
  /\ backend = "cpu" /\ model_files = <<30>> /\ system_ram = 32 /\ use_low_memory
  /\ dtype = "fp16" /\ attention_slicing /\ sample_calls = 1 /\ pc = "done"

\* The positions (1-based) of the paths in a given state, in path order.
RECURSIVE PathsIn(_, _, _)
PathsIn(paths, states, i) ==
  IF i > Len(paths) THEN <<>>
  ELSE (IF paths[i] \in states THEN <<i>> ELSE <<>>) \o PathsIn(paths, states, i + 1)

LoraBlockDone == pc \notin {"lora", "lora_loop", "lora_set"}

\* The number of weights the caller supplied (0 for None).
Supplied(w) == IF w.is_none THEN 0 ELSE Len(w.list)

\* C8: with n >= 1 paths and m < n supplied weights (m = 0 for none), the step
\* that defaults and pads the weights leaves a list of length n whose first m
\* entries are the supplied ones in order and whose last n - m entries are 1.0.
C8_PadStep ==
  (pc = "lora" /\ pc' = "lora_loop" /\ Supplied(lora_weights) < Len(lora_paths)) =>
     /\ ~lora_weights'.is_none
     /\ Len(lora_weights'.list) = Len(lora_paths)
     /\ \A i \in 1..Supplied(lora_weights) : lora_weights'.list[i] = lora_weights.list[i]
     /\ \A i \in (Supplied(lora_weights) + 1)..Len(lora_paths) : lora_weights'.list[i] = 10
C8_WeightsPadded == [][C8_PadStep]_vars

C8_Witness ==
  /\ pc = "lora_loop" /\ Len(lora_paths) = 3 /\ lora_weights.list = <<8, 10, 10>>

\* C9: when more than one adapter loaded, the composer has made exactly one
\* set_adapters call once the LoRA block is done, naming every loaded adapter
\* in path order with its weight; it makes no call before the loop is over.
C9_OneComposedCall ==
  /\ pc \in {"lora", "lora_loop", "lora_set"} => set_adapters_calls = <<>>
  /\ (LoraBlockDone /\ Len(PathsIn(lora_paths, {"ok"}, 1)) > 1) =>
        LET ok == PathsIn(lora_paths, {"ok"}, 1)
        IN /\ Len(set_adapters_calls) = 1
           /\ set_adapters_calls[1].names = [k \in 1..Len(ok) |-> ok[k] - 1]
           /\ set_adapters_calls[1].weights =
                [k \in 1..Len(ok) |-> lora_weights.list[ok[k]]]

C9_Witness ==
  /\ lora_paths = <<"ok", "ok">>
  /\ set_adapters_calls = << [names |-> <<0, 1>>, weights |-> <<8, 10>>] >>
  /\ pc = "seed"

\* C10: a missing LoRA file or a failing load never aborts the request: no
\* exception leaves the LoRA block, every path that exists gets its load call
\* (in path order), the adapters that loaded are exactly those of the good
\* files, and the run goes on to the sampling call.
C10_LoraFailuresSkipped ==
  /\ pc \in {"lora", "lora_loop", "lora_set"} => error = "none"
  /\ error # "none" => sample_calls = 1
  /\ (LoraBlockDone /\ lora_paths # <<>>) =>
        LET tried == PathsIn(lora_paths, {"ok", "corrupt"}, 1)
            ok == PathsIn(lora_paths, {"ok"}, 1)
        IN /\ load_calls = [k \in 1..Len(tried) |-> tried[k] - 1]
           /\ Len(loaded_adapters) = Len(ok)
           /\ \A k \in 1..Len(ok) : loaded_adapters[k].name = ok[k] - 1
           /\ lora_i = Len(lora_paths) + 1

C10_Witness ==
  /\ lora_paths = <<"missing", "corrupt", "ok">>
  /\ {"lora_not_found_skipping", "lora_load_failed"} \subseteq log
  /\ Len(loaded_adapters) = 1 /\ sample_calls = 1 /\ pc = "save"

\* Both requests have left the Weight Adapter, by its end or by an exception.
AdapterEnded(r) == adapter[r].pc \in {"done", "raised"}

\* C11: a Weight Adapter run that begins after another run on the same
\* directory has completed changes nothing: at each of its steps the weight
\* path, the cache file and the backup file stay as they are, it performs no
\* save_file, rename, unlink or symlink, and what it loads through the link
\* holds no fused keys.
C11_SecondRunStep ==
  \A r \in Runs :
    (adapter'[r].after_completed /\ adapter'[r] # adapter[r]) =>
       /\ weights_file' = weights_file
       /\ cache_file' = cache_file
       /\ backup_file' = backup_file
       /\ adapter'[r].ops = <<>>
       /\ adapter'[r].needs_remap \in {"unset", "false"}
       /\ adapter'[r].pc \in {"exists", "load", "done", "raised"}
C11_RemapIdempotent == [][C11_SecondRunStep]_vars

C11_Witness ==
  /\ adapter[1].ops = <<"save_file", "rename", "symlink">> /\ Completed(1)
  /\ adapter[2].after_completed /\ Completed(2)
  /\ adapter[2].needs_remap = "false" /\ adapter[2].ops = <<>>
  /\ weights_file = "link" /\ cache_file = "remapped" /\ backup_file = "fused"

\* The on-disk layout is corrupted: the backup does not hold the original
\* fused weights, or the weight path is missing, or a run was aborted by
\* rename, unlink or symlink.
Corrupted ==
  \/ backup_file # "fused"
  \/ weights_file = "absent"
  \/ \E r \in Runs :
       adapter[r].error \in {"FileNotFoundError: rename", "FileNotFoundError: unlink",
                             "FileExistsError: symlink"}

\* C12: two first-time runs against a fused-weight model can interleave so
\* that both find no backup before either has renamed the weight file; every
\* such interleaving, once both runs have ended without a failure of the file
\* system itself, has left the layout corrupted.
C12_RaceCorrupts ==
  ( /\ \A r \in Runs : AdapterEnded(r) /\ adapter[r].chose_rename
    /\ \A r \in Runs : adapter[r].error \in RaceErrors \cup {"none"} )
  => Corrupted

C12_Witness ==
  /\ \A r \in Runs : Completed(r) /\ adapter[r].chose_rename
  /\ backup_file = "link" /\ weights_file = "link"

\* C13: a failure inside the Weight Adapter does not abort the request there.
C13_AdapterFailureNonFatal ==
  \A r \in Runs : adapter[r].error \in AdapterErrors => adapter[r].pc # "raised"

\* Direct placement on mps raised a RuntimeError that reports out of memory.
OutOfMemory == [type |-> "RuntimeError", msg |-> {"out of memory"}]
OomOnMps == backend = "mps" /\ to_calls = 1 /\ place_exc = OutOfMemory

\* C14: when direct placement on mps raises an out-of-memory RuntimeError, the
\* run has sequential offload on from then on and always comes to an end; the
\* only failures left are those of the sampling call and of the image write,
\* and without them the run has made one sampling call, written every image,
\* printed the JSON block once and exits 0.
C14_Safe ==
  OomOnMps =>
     /\ offload = "sequential" /\ ~placed
     /\ error \in {"none", "sampling failed", "image save failed"}
     /\ (pc = "done" /\ error = "none") =>
           /\ sample_calls = 1
           /\ num_images >= 1 /\ saved_paths = num_images
           /\ json_out = 1
           /\ exit_code = 0
C14_OomFallbackCompletes == [] C14_Safe /\ (OomOnMps ~> pc = "done")

C14_Witness ==
  /\ OomOnMps /\ pc = "done" /\ exit_code = 0 /\ offload = "sequential"
  /\ num_images = 2 /\ saved_paths = 2 /\ json_out = 1

\* C15: the success JSON block is printed at most once and only after every
\* image was saved; a run that has ended printed it exactly when its exit code
\* is 0; a run in which generate_image raised exits 1 and printed none.
C15_JsonIffExitZero ==
  /\ json_out <= 1
  /\ json_out = 1 => (num_images >= 1 /\ saved_paths = num_images)
  /\ pc = "done" => (json_out = 1 <=> exit_code = 0)
  /\ pc = "done" => exit_code \in {0, 1}
  /\ (pc = "done" /\ error # "none") => (exit_code = 1 /\ json_out = 0)
  /\ error # "none" => json_out = 0

C15_Witness ==
  /\ pc = "done" /\ error = "image save failed" /\ num_images = 2 /\ saved_paths = 1
  /\ json_out = 0 /\ exit_code = 1

\* C16: a run in which an exception left generate_image has printed a JSON
\* object reporting the failure and exits with a nonzero code (json_out counts
\* every JSON block the program prints).
C16_FailureJsonEmitted ==
  (pc = "done" /\ error # "none") => (json_out >= 1 /\ exit_code # 0)

\* C17: a request whose scheduler name is not in the registry never samples,
\* never writes an image and ends with exit code 1 on an exception.
C17_UnknownSchedulerFatal ==
  scheduler \notin DOMAIN SCHEDULERS =>
     /\ sample_calls = 0 /\ saved_paths = 0 /\ json_out = 0
     /\ pc = "done" => (exit_code = 1 /\ error # "none")

\* C18: detect_pipeline_class never raises and writes nothing to disk, and for
\* a single file, a directory without manifest, an unreadable or malformed
\* manifest, a manifest without _class_name or a class the library does not
\* provide it returns the default Stable Diffusion pipeline (the img2img one
\* when is_img2img) with model type 'Stable Diffusion'.
NoUsableClass ==
  manifest \in {"single_file", "no_manifest", "unreadable", "malformed",
                "no_class_name", "MysteryPipeline"}
C18_Default ==
  /\ pc \in {"detect", "remap"} /\ error = "none"
  /\ (pc = "remap" /\ NoUsableClass) =>
        /\ is_img2img => PipelineClass = "StableDiffusionImg2ImgPipeline"
        /\ ~is_img2img => PipelineClass = "StableDiffusionPipeline"
        /\ model_type = "Stable Diffusion"
C18_WritesNothing ==
  /\ manifest' = manifest /\ weights_file' = weights_file
  /\ cache_file' = cache_file /\ backup_file' = backup_file
C18_DetectFallsBack == [] C18_Default /\ [][C18_WritesNothing]_vars

C18_Witness ==
  /\ pc = "remap" /\ manifest = "MysteryPipeline" /\ is_img2img
  /\ PipelineClass = "StableDiffusionImg2ImgPipeline" /\ model_type = "Stable Diffusion"
  /\ weights_file = "fused"

\* C19: in a successful run the scheduler named in the JSON metadata is the
\* one bound to the pipeline during sampling: a registry name whose class is
\* the class of the pipeline's scheduler.
C19_MetadataSchedulerBound ==
  json_out > 0 =>
     /\ metadata_scheduler \in DOMAIN SCHEDULERS
     /\ SCHEDULERS[metadata_scheduler] = pipe_scheduler.cls

\* C20: after an out-of-memory failure of pipe.to and the switch to sequential
\* offload, the device the run goes on with (the memory toggles, the random
\* generator) is the device selected before the placement attempt.
C20_FallbackKeepsDevice ==
  (to_calls = 1 /\ place_exc = OutOfMemory /\ offload = "sequential") =>
     /\ device = backend
     /\ generator_device \in {"unset", backend}


\* The caught exception types of the placement handler, and the phrases that
\* mark a meta / uninitialized tensor or an exhausted memory.
CaughtTypes == {"RuntimeError", "NotImplementedError"}
MetaTensorPhrases == {"meta tensor", "to_empty"}
PlacementRaised == to_calls = 1 /\ place_exc # NoException

\* C21: every placement error whose message indicates a meta / uninitialized
\* tensor ("meta tensor" or "to_empty") gets model offload with the device of
\* the generator re-targeted to cpu, never sequential offload, whatever else
\* its message contains.
C21_MetaTensorGetsModelOffload ==
  (/\ PlacementRaised
   /\ place_exc.type \in CaughtTypes
   /\ place_exc.msg \cap MetaTensorPhrases # {}) =>
     /\ offload = "model"
     /\ device = "cpu"
     /\ generator_device \in {"unset", "cpu"}

\* C22: a placement error that neither reports out of memory nor a meta /
\* uninitialized tensor is fatal, whatever its type and whatever else its
\* message mentions: no offload is enabled, the error leaves generate_image,
\* no sampling call is made and the process exits with code 1.
C22_OtherPlacementErrorFatal ==
  (/\ PlacementRaised
   /\ place_exc.msg \cap ({"out of memory"} \cup MetaTensorPhrases) = {}) =>
     /\ offload = "none"
     /\ error = "placement failed"
     /\ sample_calls = 0
     /\ pc = "done" => exit_code = 1

\* C23: when low-memory mode is predicted and the selected backend is mps, the
\* run never calls pipe.to, so no placement error and no fallback branch can
\* occur, and sequential offload is on once the placement block is done.
C23_ProactiveSequentialOffload ==
  (backend = "mps" /\ use_low_memory) =>
     /\ to_calls = 0 /\ place_exc = NoException /\ ~placed
     /\ offload \in {"none", "sequential"}
     /\ AfterPlacement => offload = "sequential" /\ device = "mps"

C23_Witness ==
  /\ backend = "mps" /\ use_low_memory /\ model_files = <<30>> /\ system_ram = 32
  /\ offload = "sequential" /\ to_calls = 0 /\ sample_calls = 1 /\ pc = "done"

\* C24: for a scheduler name of the registry, get_scheduler returns an
\* instance of the registered class.  When the construction from the pipeline's
\* configuration succeeds, the instance is built from that configuration
\* without any deny-listed key, overlaid with the registry overrides; when it
\* fails, from the registry overrides alone; an exception leaves get_scheduler
\* only when that construction fails too.  The pipeline's own configuration is
\* never changed.
C24_Built ==
  (pc # "scheduler" /\ scheduler \in DOMAIN SCHEDULERS) =>
     LET overrides == SchedulerConfig(scheduler)
     IN /\ get_scheduler_calls = 1
        /\ pc \in {"place", "raised"}
        /\ pc = "raised" =>
             /\ error = SchedulerCtorRaise.raise
             /\ pipe_scheduler = [cls |-> "PNDMScheduler", built |-> "model"]
        /\ pc = "place" =>
             /\ pipe_scheduler.cls = SCHEDULERS[scheduler]
             /\ pipe_scheduler.built \in {"pipeline_config", "defaults"}
             /\ pipe_scheduler.built = "pipeline_config" =>
                  /\ Keys(built_config) \cap IncompatibleKeys = {}
                  /\ overrides \subseteq built_config
                  /\ \A p \in pipeline_config :
                       (p[1] \notin IncompatibleKeys /\ p[1] \notin Keys(overrides))
                          => p \in built_config
                  /\ \A p \in built_config : p \in overrides \/ p \in pipeline_config
             /\ pipe_scheduler.built = "defaults" => built_config = overrides
C24_ConfigKept == pipeline_config' = pipeline_config
C24_GetScheduler == []C24_Built /\ [][C24_ConfigKept]_vars

C24_Witness ==
  /\ pc = "place" /\ scheduler = "dpm++"
  /\ pipeline_config = { <<"steps_offset", "pipeline">>, <<"solver_order", "pipeline">>,
                         <<"num_train_timesteps", "pipeline">> }
  /\ pipe_scheduler = [cls |-> "DPMSolverMultistepScheduler", built |-> "pipeline_config"]
  /\ <<"num_train_timesteps", "pipeline">> \in built_config
  /\ <<"solver_order", "1">> \in built_config
  /\ <<"solver_order", "pipeline">> \notin built_config
  /\ "steps_offset" \notin Keys(built_config)

\* The numbered order of the components.
NumberedOrder ==
  <<"descriptor", "weights", "device_precision", "memory", "scheduler", "lora",
    "placement">>

\* C25: in every request that runs to completion, generate_image has invoked
\* the components once each, in the numbered order: descriptor resolver,
\* Weight Adapter, device and precision policy, memory estimator, scheduler
\* resolver, LoRA composer, placement.
C25_ComponentOrder ==
  (pc = "done" /\ exit_code = 0) => invoked = NumberedOrder

\* C26: for every model the precision policy or the scheduler rules treat as
\* a flow-matching family, Compel is never invoked before the sampling call.
C26_FlowFamilySkipsCompel ==
  ((IsZImage(model_type) \/ StrictSchedulerType(model_type)) /\ sample_calls > 0) =>
     ~compel_used /\ "compel_failed" \notin log

\* C27: after one completed run with no other run, a model whose weights had
\* fused qkv keys has the remapped weights in the cache file, the fused
\* original in the backup file and a symbolic link at the weight path, made
\* by one write, one rename and one symlink; a model without fused keys has
\* had nothing written, renamed or linked.
C27_LayoutAfterOneRun ==
  \A r \in Runs :
    (Completed(r) /\ adapter[Other(r)].pc = "idle") =>
       IF adapter[r].needs_remap = "fused"
       THEN /\ cache_file = "remapped" /\ backup_file = "fused"
            /\ weights_file = "link" /\ Content(weights_file) = "remapped"
            /\ adapter[r].ops = <<"save_file", "rename", "symlink">>
       ELSE /\ adapter[r].ops = <<>>
            /\ cache_file = "absent" /\ backup_file = "absent"
            /\ weights_file \in {"absent", "split"}

C27_Witness ==
  /\ Completed(1) /\ adapter[2].pc = "idle" /\ adapter[1].needs_remap = "fused"
  /\ weights_file = "link" /\ cache_file = "remapped" /\ backup_file = "fused"

\* The errors of input validation.
ValidationErrors ==
  {"FileNotFoundError: Model not found", "FileNotFoundError: Input image not found",
   SchedulerRaise.raise, SdeError}

\* C28: when a validation error is raised (missing model path, missing source
\* image, unknown scheduler name, stochastic scheduler on mps), the model
\* directory is as it was before the request: no cache file, no backup file,
\* no symbolic link at the weight path.
C28_ValidationBeforeSideEffects ==
  error \in ValidationErrors =>
     /\ cache_file = "absent" /\ backup_file = "absent"
     /\ weights_file # "link"

\* C29: the adapter loaded from the i-th path is named lora_i and carries the
\* i-th entry of the effective weight list, also when earlier paths were
\* skipped or failed; set_adapters is not called when no adapter loaded, nor
\* when exactly one loaded with weight 1.0.
C29_LoraIdentityKept ==
  LET ok == PathsIn(lora_paths, {"ok"}, 1)
  IN /\ Len(loaded_adapters) <= Len(ok)
     /\ \A k \in 1..Len(loaded_adapters) :
          /\ loaded_adapters[k].name = ok[k] - 1
          /\ loaded_adapters[k].weight = lora_weights.list[ok[k]]
     /\ (LoraBlockDone /\ Len(ok) = 0) => set_adapters_calls = <<>>
     /\ (LoraBlockDone /\ Len(ok) = 1) =>
          (lora_weights.list[ok[1]] = DefaultWeight => set_adapters_calls = <<>>)

C29_Witness ==
  /\ lora_paths = <<"missing", "ok", "corrupt">>
  /\ lora_weights.list = <<8, 10, 8>>
  /\ loaded_adapters = << [name |-> 1, weight |-> 10] >>
  /\ set_adapters_calls = <<>> /\ pc = "seed"

\* The steps of the Weight Adapter from the start of the cache write on.
FromCacheWrite ==
  {"cache_writing", "backup_check", "rename", "link_check", "unlink", "symlink"}

\* C30: when a run on a fused-weight model stopped (killed, or a step raised)
\* during or after the cache write, a run that begins afterwards and completes
\* leaves the weight path resolving to complete remapped weights and the
\* backup holding the fused original.
C30_LaterRunRestoresLayout ==
  \A r \in Runs :
    (/\ adapter[Other(r)].pc = "raised"
     /\ adapter[Other(r)].needs_remap = "fused"
     /\ adapter[Other(r)].stopped_at \in FromCacheWrite
     /\ adapter[r].after_aborted /\ Completed(r)) =>
       /\ Exists(weights_file) /\ Content(weights_file) = "remapped"
       /\ backup_file = "fused"

====
